---- MODULE Spec2Model ----
(***************************************************************************)
(* State-machine model of the research-paper-analyzer front end:           *)
(*   App               (src/unnamed/part_000)                              *)
(*   ResultsDashboard  (src/frontend/src/components/ThemeToggle.js)        *)
(*   EnhancedResults   (src/frontend/src/components/EnhancedResults.js)    *)
(* Every event handler, promise continuation and interval callback is one  *)
(* action: the browser runs each of them to completion on a single thread. *)
(* File names are sequences of one-character strings.                      *)
(* isDragging is left out: it only selects a CSS class of the drop zone,   *)
(* no handler reads it, so handleDragEnter/Over/Leave change nothing here. *)
(***************************************************************************)
EXTENDS Integers, Sequences, FiniteSets, TLC

VARIABLES
  file,            \* App: useState(null)   the selected File, or NoFile
  results,         \* App: useState(null)   the analysis payload, or NoResult
  loading,         \* App: useState(false)
  error,           \* App: useState(null)   a message, or NoError
  uploadProgress,  \* App: useState(0)
  showFeatures,    \* App: useState(true)
  reqs,            \* analysis requests issued so far: the file in its form data
                   \* (NoFile once settled), status, progressInterval alive
  downloading,     \* ResultsDashboard: useState(false) of the mounted instance
  inst,            \* number of ResultsDashboard instances mounted so far
  dls,             \* report-download requests issued so far: the filename of
                   \* its closure (<<>> once settled), the instance, pending
  alerts,          \* window.alert calls so far: failure and success messages
  saved,           \* a.download names the browser was asked to save so far
  props,           \* rendering: the results prop handed to ResultsDashboard,
                   \* each sub-object "ok", "missing" or "error"
  view             \* rendering: what the render of props produced

vars == <<file, results, loading, error, uploadProgress,
          showFeatures, reqs, downloading, inst, dls, alerts, saved, props, view>>

appVars == <<file, results, loading, error, uploadProgress, showFeatures>>
netVars == <<reqs, dls>>
dashVars == <<downloading, inst>>
browserVars == <<alerts, saved>>
renderVars == <<props, view>>

-----------------------------------------------------------------------------
(* Bounds of the model *)

\* network requests (analysis and report download) issued in one behaviour
MaxIssued == 4
\* sub-objects of a rendered result that are missing or error-flagged
MaxDefects == 2

-----------------------------------------------------------------------------
(* Strings as sequences of characters *)

LowerOf(c) ==
  CASE c = "P" -> "p" [] c = "D" -> "d" [] c = "F" -> "f" [] c = "T" -> "t"
    [] c = "X" -> "x" [] c = "O" -> "o" [] c = "C" -> "c" [] c = "E" -> "e"
    [] c = "A" -> "a" [] c = "B" -> "b"
    [] OTHER -> c

toLowerCase(s) == [i \in 1..Len(s) |-> LowerOf(s[i])]

\* index of the last "." of s, 0 when s holds none
LastDot(s) ==
  IF \E i \in 1..Len(s) : s[i] = "."
  THEN CHOOSE i \in 1..Len(s) : s[i] = "." /\ \A j \in (i+1)..Len(s) : s[j] # "."
  ELSE 0

\* s.split('.').pop(): what follows the last ".", the whole string without one
SplitPop(s) == SubSeq(s, LastDot(s) + 1, Len(s))

-----------------------------------------------------------------------------
(* Values *)

NoFile == [name |-> <<>>, size |-> -1]
NoResult == [filename |-> <<>>, req |-> 0]
NoError == "<null>"

InvalidTypeMsg == "Invalid file type. Please upload PDF, DOCX, or TXT files."
TooLargeMsg == "File too large. Maximum size is 50MB."
GenericFailMsg == "Analysis failed. Please try again."

maxSize == 50 * 1024 * 1024

allowedTypes == { <<".","p","d","f">>, <<".","d","o","c","x">>, <<".","t","x","t">> }

\* the files a user may pick or drop
Names == { <<"b",".","c",".","T","X","T">>,
           <<"d",".","d","o","c","x">>,
           <<"p","d","f">>,
           <<"a",".","e","x","e">> }
Sizes == { maxSize, maxSize + 1 }
\* d.docx is offered oversized only, which keeps the accepted files to two names
Files == { f \in [name : Names, size : Sizes] :
             f.name = <<"d",".","d","o","c","x">> => f.size > maxSize }

\* err.response?.data?.detail: absent, the empty string, or a message
Undefined == "<undefined>"
Details == { Undefined, "", "Unsupported document" }

\* '.' + name.split('.').pop().toLowerCase(), tabulated over the names in use
ExtensionOf == [n \in Names |-> <<".">> \o toLowerCase(SplitPop(n))]

fileExtension(selectedFile) == ExtensionOf[selectedFile.name]

-----------------------------------------------------------------------------
(* The result object as the two presentational components read it *)

DashboardFields == { "statistics", "file_info", "topic_classification",
                     "contribution_type", "methodology_classification",
                     "sentiment_analysis", "section_analysis", "keywords",
                     "named_entities" }
EnhancedFields == { "quality_score", "summary", "readability_analysis",
                    "citations_analysis", "research_questions" }
Fields == DashboardFields \cup EnhancedFields

\* "ok": the sub-object with its data; "missing": undefined; "error": the
\* sub-object carries only its failure mark ({error: ...}; for summary,
\* one_sentence = "Summary generation failed")
FullResult == [f \in Fields |-> "ok"]

DefectSets == { D \in SUBSET Fields : Cardinality(D) <= MaxDefects }
ResultShapes ==
  UNION { { [f \in Fields |-> IF f \in D THEN e[f] ELSE "ok"] :
              e \in [D -> {"missing", "error"}] } : D \in DefectSets }

NotRendered == [rendered |-> FALSE, threw |-> FALSE, sections |-> {}]

-----------------------------------------------------------------------------
Init ==
  /\ file = NoFile
  /\ results = NoResult
  /\ loading = FALSE
  /\ error = NoError
  /\ uploadProgress = 0
  /\ showFeatures = TRUE
  /\ reqs = <<>>
  /\ downloading = FALSE
  /\ inst = 0
  /\ dls = <<>>
  /\ alerts = [failed |-> 0, ok |-> 0]
  /\ saved = <<>>
  /\ props = FullResult
  /\ view = NotRendered

\* the upload section (drop zone, file input) is rendered only without results
UploadShown == results = NoResult

\* mutant: the size check rejects a file of exactly maxSize bytes
validateAndSetFile_sizeGE(selectedFile) ==
  IF fileExtension(selectedFile) \notin allowedTypes
  THEN /\ error' = InvalidTypeMsg
       /\ UNCHANGED <<file, results, showFeatures>>
  ELSE IF selectedFile.size >= maxSize
  THEN /\ error' = TooLargeMsg
       /\ UNCHANGED <<file, results, showFeatures>>
  ELSE /\ file' = selectedFile
       /\ error' = NoError
       /\ results' = NoResult
       /\ showFeatures' = FALSE

validateAndSetFile(selectedFile) ==
  IF fileExtension(selectedFile) \notin allowedTypes
  THEN /\ error' = InvalidTypeMsg
       /\ UNCHANGED <<file, results, showFeatures>>
  ELSE IF selectedFile.size > maxSize
  THEN /\ error' = TooLargeMsg
       /\ UNCHANGED <<file, results, showFeatures>>
  ELSE /\ file' = selectedFile
       /\ error' = NoError
       /\ results' = NoResult
       /\ showFeatures' = FALSE

handleDrop(droppedFile) ==
  /\ UploadShown
  /\ validateAndSetFile(droppedFile)
  /\ UNCHANGED <<loading, uploadProgress>>
  /\ UNCHANGED <<netVars, dashVars, browserVars, renderVars>>

handleFileSelect(selectedFile) ==
  /\ UploadShown
  /\ validateAndSetFile(selectedFile)
  /\ UNCHANGED <<loading, uploadProgress>>
  /\ UNCHANGED <<netVars, dashVars, browserVars, renderVars>>

\* mutant: the Analyze button is not disabled while loading
AnalyzeClickable_notDisabled == UploadShown /\ file # NoFile

\* the Analyze button: rendered in the upload section when a file is selected,
\* disabled while loading
AnalyzeClickable == UploadShown /\ file # NoFile /\ ~loading

\* mutant: analyzeDocument without setError(null)
analyzeDocument_keepError ==
  /\ AnalyzeClickable
  /\ Len(reqs) + Len(dls) < MaxIssued
  /\ file # NoFile
  /\ loading' = TRUE
  /\ uploadProgress' = 0
  /\ reqs' = Append(reqs, [file |-> file, status |-> "pending", timer |-> TRUE])
  /\ UNCHANGED <<file, results, error, showFeatures, dls>>
  /\ UNCHANGED <<dashVars, browserVars, renderVars>>

\* analyzeDocument up to the await: the request carries the file of the click
analyzeDocument ==
  /\ AnalyzeClickable
  /\ Len(reqs) + Len(dls) < MaxIssued
  /\ file # NoFile
  /\ loading' = TRUE
  /\ error' = NoError
  /\ uploadProgress' = 0
  /\ reqs' = Append(reqs, [file |-> file, status |-> "pending", timer |-> TRUE])
  /\ UNCHANGED <<file, results, showFeatures, dls>>
  /\ UNCHANGED <<dashVars, browserVars, renderVars>>

\* mutant: the callback stops at prev > 90 instead of prev >= 90
progressTick_capAbove90(i) ==
  /\ reqs[i].timer
  /\ IF uploadProgress > 90
     THEN /\ uploadProgress' = 90
          /\ reqs' = [reqs EXCEPT ![i].timer = FALSE]
     ELSE /\ uploadProgress' = uploadProgress + 10
          /\ UNCHANGED reqs
  /\ UNCHANGED <<file, results, loading, error, showFeatures, dls>>
  /\ UNCHANGED <<dashVars, browserVars, renderVars>>

\* one firing of the progressInterval callback of request i
progressTick(i) ==
  /\ reqs[i].timer
  /\ IF uploadProgress >= 90
     THEN /\ uploadProgress' = 90
          /\ reqs' = [reqs EXCEPT ![i].timer = FALSE]
     ELSE /\ uploadProgress' = uploadProgress + 10
          /\ UNCHANGED reqs
  /\ UNCHANGED <<file, results, loading, error, showFeatures, dls>>
  /\ UNCHANGED <<dashVars, browserVars, renderVars>>

\* the backend's payload for request i: it names the uploaded file
Payload(i) == [filename |-> reqs[i].file.name, req |-> i]

\* mutant: the success path without setUploadProgress(100)
analyzeSuccess_noProgress(i) ==
  /\ reqs[i].status = "pending"
  /\ reqs' = [reqs EXCEPT ![i].status = "ok", ![i].timer = FALSE,
                            ![i].file = NoFile]
  /\ results' = Payload(i)
  /\ loading' = FALSE
  /\ IF results = NoResult
     THEN downloading' = FALSE /\ inst' = inst + 1
     ELSE UNCHANGED dashVars
  /\ UNCHANGED <<file, uploadProgress, error, showFeatures, dls>>
  /\ UNCHANGED <<browserVars, renderVars>>

\* mutant: a response that arrives after a reset is dropped
analyzeSuccess_dropAfterReset(i) ==
  /\ reqs[i].status = "pending"
  /\ reqs' = [reqs EXCEPT ![i].status = "ok", ![i].timer = FALSE,
                            ![i].file = NoFile]
  /\ loading' = FALSE
  /\ IF file = NoFile
     THEN UNCHANGED <<uploadProgress, results, dashVars>>
     ELSE /\ uploadProgress' = 100
          /\ results' = Payload(i)
          /\ IF results = NoResult
             THEN downloading' = FALSE /\ inst' = inst + 1
             ELSE UNCHANGED dashVars
  /\ UNCHANGED <<file, error, showFeatures, dls>>
  /\ UNCHANGED <<browserVars, renderVars>>

\* analyzeDocument after the await resolved, the finally block included
analyzeSuccess(i) ==
  /\ reqs[i].status = "pending"
  /\ reqs' = [reqs EXCEPT ![i].status = "ok", ![i].timer = FALSE,
                            ![i].file = NoFile]
  /\ uploadProgress' = 100
  /\ results' = Payload(i)
  /\ loading' = FALSE
  \* a ResultsDashboard is mounted when results turns non-null
  /\ IF results = NoResult
     THEN downloading' = FALSE /\ inst' = inst + 1
     ELSE UNCHANGED dashVars
  /\ UNCHANGED <<file, error, showFeatures, dls>>
  /\ UNCHANGED <<browserVars, renderVars>>

\* mutant: the backend detail is ignored
FailureMessage_generic(detail) == GenericFailMsg

\* err.response?.data?.detail || 'Analysis failed. Please try again.'
FailureMessage(detail) ==
  IF detail = Undefined \/ detail = "" THEN GenericFailMsg ELSE detail

\* mutant: the failure path without the finally block's setLoading(false)
analyzeFailure_noFinally(i, detail) ==
  /\ reqs[i].status = "pending"
  /\ reqs' = [reqs EXCEPT ![i].status = "failed", ![i].file = NoFile]
  /\ error' = FailureMessage(detail)
  /\ UNCHANGED <<file, results, loading, uploadProgress, showFeatures, dls>>
  /\ UNCHANGED <<dashVars, browserVars, renderVars>>

\* analyzeDocument after the await rejected: catch, then finally
analyzeFailure(i, detail) ==
  /\ reqs[i].status = "pending"
  /\ reqs' = [reqs EXCEPT ![i].status = "failed", ![i].file = NoFile]
  /\ error' = FailureMessage(detail)
  /\ loading' = FALSE
  /\ UNCHANGED <<file, results, uploadProgress, showFeatures, dls>>
  /\ UNCHANGED <<dashVars, browserVars, renderVars>>

\* Clear (upload section, with a file), New Analysis and the floating button
\* (with results)
ResetClickable == (UploadShown /\ file # NoFile) \/ results # NoResult

\* mutant: resetApp without setUploadProgress(0)
resetApp_keepProgress ==
  /\ ResetClickable
  /\ file' = NoFile
  /\ results' = NoResult
  /\ error' = NoError
  /\ showFeatures' = TRUE
  /\ downloading' = FALSE
  /\ UNCHANGED <<uploadProgress, loading, inst>>
  /\ UNCHANGED <<netVars, browserVars, renderVars>>

resetApp ==
  /\ ResetClickable
  /\ file' = NoFile
  /\ results' = NoResult
  /\ error' = NoError
  /\ uploadProgress' = 0
  /\ showFeatures' = TRUE
  \* the ResultsDashboard, if mounted, is unmounted and its state dropped
  /\ downloading' = FALSE
  /\ UNCHANGED <<loading, inst>>
  /\ UNCHANGED <<netVars, browserVars, renderVars>>

\* mutant: the name is cut at its first "." instead of its last
StripExtension_firstDot(s) ==
  IF \E i \in 1..Len(s) : s[i] = "."
  THEN SubSeq(s, 1, (CHOOSE i \in 1..Len(s) :
                       s[i] = "." /\ \A j \in 1..(i-1) : s[j] # ".") - 1)
  ELSE s

\* filename.replace(/\.[^/.]+$/, ''): a final "." followed by one or more
\* characters other than "." and "/" is cut off
StripExtension(s) ==
  LET d == LastDot(s) IN
  IF d > 0 /\ d < Len(s) /\ \A j \in (d+1)..Len(s) : s[j] # "/"
  THEN SubSeq(s, 1, d - 1)
  ELSE s

\* `analysis_report_${...}.pdf`
ReportName(filename) == <<"analysis_report_">> \o StripExtension(filename) \o <<".pdf">>

\* what fetch yields: status 0 stands for a rejected fetch (no response)
DlResponses == { [status |-> 0, size |-> 0],
                 [status |-> 500, size |-> 0], [status |-> 500, size |-> 1],
                 [status |-> 200, size |-> 0], [status |-> 200, size |-> 1] }

ResponseOk(resp) == resp.status >= 200 /\ resp.status <= 299

\* mutant: the Download button is not disabled while downloading
DownloadClickable_notDisabled == results # NoResult

\* the Download button of the mounted ResultsDashboard, disabled while downloading
DownloadClickable == results # NoResult /\ ~downloading

\* downloadPDF up to the first await
downloadPDF ==
  /\ DownloadClickable
  /\ Len(reqs) + Len(dls) < MaxIssued
  /\ downloading' = TRUE
  /\ dls' = Append(dls, [filename |-> results.filename, inst |-> inst, pending |-> TRUE])
  /\ UNCHANGED <<appVars, reqs, inst, browserVars, renderVars>>

\* the alert of the catch block, or "" when downloadPDF reaches a.click()
DownloadError(resp) ==
  IF resp.status = 0 THEN "Failed to download PDF: Failed to fetch"
  ELSE IF ~ResponseOk(resp) THEN "Failed to download PDF: Server returned 500"
  ELSE IF resp.size = 0 THEN "Failed to download PDF: Generated PDF is empty"
  ELSE ""

\* downloadPDF after the fetch settled: save or throw, catch, finally.
\* setDownloading(false) reaches only the instance that started the request.
downloadSettle(j, resp) ==
  /\ dls[j].pending
  /\ dls' = [dls EXCEPT ![j].pending = FALSE, ![j].filename = <<>>]
  /\ IF DownloadError(resp) = ""
     THEN /\ saved' = Append(saved, ReportName(dls[j].filename))
          /\ alerts' = [alerts EXCEPT !.ok = @ + 1]
     ELSE /\ alerts' = [alerts EXCEPT !.failed = @ + 1]
          /\ UNCHANGED saved
  /\ IF results # NoResult /\ dls[j].inst = inst
     THEN downloading' = FALSE
     ELSE UNCHANGED downloading
  /\ UNCHANGED <<appVars, reqs, inst, renderVars>>

Next ==
  \/ \E f \in Files : handleDrop(f)
  \/ \E f \in Files : handleFileSelect(f)
  \/ analyzeDocument
  \/ \E i \in 1..Len(reqs) : progressTick(i)
  \/ \E i \in 1..Len(reqs) : analyzeSuccess(i)
  \/ \E i \in 1..Len(reqs), d \in Details : analyzeFailure(i, d)
  \/ resetApp
  \/ downloadPDF
  \/ \E j \in 1..Len(dls), resp \in DlResponses : downloadSettle(j, resp)

Spec == Init /\ [][Next]_vars

-----------------------------------------------------------------------------
(* Rendering of one result object *)

\* the member expressions ResultsDashboard evaluates without a guard throw a
\* TypeError on undefined: statistics.word_count.toLocaleString(),
\* file_info.type.toUpperCase(), topic_classification.secondary_topics.map,
\* methodology_classification.secondary_methodologies.map,
\* section_analysis.sections_found.map, keywords.slice,
\* Object.keys(named_entities) and entities.map; contribution_type and
\* sentiment_analysis are only read one level deep
DashboardThrows(r) ==
  \/ r["statistics"] # "ok"
  \/ r["file_info"] # "ok"
  \/ r["topic_classification"] # "ok"
  \/ r["contribution_type"] = "missing"
  \/ r["methodology_classification"] # "ok"
  \/ r["sentiment_analysis"] = "missing"
  \/ r["section_analysis"] # "ok"
  \/ r["keywords"] # "ok"
  \/ r["named_entities"] # "ok"

\* the sections EnhancedResults renders
EnhancedSections(r) ==
     { f \in {"quality_score"} : r[f] # "missing" }
  \cup { f \in {"summary"} : r[f] = "ok" }
  \cup { f \in {"readability_analysis"} : r[f] = "ok" }
  \cup { f \in {"citations_analysis"} : r[f] = "ok" }
  \cup { f \in {"research_questions"} : r[f] # "missing" }

\* ResultsDashboard(results): its body evaluates every expression of its JSX
\* before EnhancedResults is called
RenderDashboard(r) ==
  IF DashboardThrows(r)
  THEN [rendered |-> TRUE, threw |-> TRUE, sections |-> {}]
  ELSE [rendered |-> TRUE, threw |-> FALSE,
        sections |-> DashboardFields \cup EnhancedSections(r)]

renderResults ==
  /\ ~view.rendered
  /\ view' = RenderDashboard(props)
  /\ UNCHANGED <<props, appVars, netVars, dashVars, browserVars>>

RenderInit ==
  /\ file = NoFile
  /\ results = NoResult
  /\ loading = FALSE
  /\ error = NoError
  /\ uploadProgress = 0
  /\ showFeatures = TRUE
  /\ reqs = <<>>
  /\ downloading = FALSE
  /\ inst = 0
  /\ dls = <<>>
  /\ alerts = [failed |-> 0, ok |-> 0]
  /\ saved = <<>>
  /\ props \in ResultShapes
  /\ view = NotRendered

RenderNext == renderResults

RenderSpec == RenderInit /\ [][RenderNext]_vars

\* every issued analysis request eventually settles, one way or the other
settle == \E i \in 1..Len(reqs) :
            analyzeSuccess(i) \/ \E d \in Details : analyzeFailure(i, d)

FairSpec == Spec /\ WF_vars(settle)

-----------------------------------------------------------------------------
(* File intake *)

pdf == <<"p","d","f">>
docx == <<"d","o","c","x">>
txt == <<"t","x","t">>

\* a step that selects or drops f
Selects(f) == handleDrop(f) \/ handleFileSelect(f)

\* the name ends in a final-dot extension equal, case-insensitively, to ext
HasFinalDotExtension(name, ext) ==
  /\ Len(name) > Len(ext)
  /\ name[Len(name) - Len(ext)] = "."
  /\ toLowerCase(SubSeq(name, Len(name) - Len(ext) + 1, Len(name))) = ext

\* the name has no dot and is, case-insensitively, ext itself
IsBareExtension(name, ext) == toLowerCase(name) = ext

\* the files C1 is about: no final-dot extension pdf, docx or txt
C1_Files ==
  { f \in Files : ~\E ext \in {pdf, docx, txt} : HasFinalDotExtension(f.name, ext) }

\* C1: selecting or dropping a file whose name does not end in a final-dot
\* extension pdf, docx or txt (names without a dot included) sets error to the
\* invalid-type message and leaves file and results as they were.
C1_InvalidTypeRejected ==
  [][\A f \in C1_Files :
       Selects(f) => (error' = InvalidTypeMsg /\ file' = file /\ results' = results)]_vars

\* the file passes the type check of the code: the text after the final dot,
\* or the whole name when it has no dot, is pdf, docx or txt
PassesTypeCheck(name) ==
  \E ext \in {pdf, docx, txt} :
    HasFinalDotExtension(name, ext) \/ IsBareExtension(name, ext)

TypeCheckedFiles == { f \in Files : PassesTypeCheck(f.name) }

\* C2 as stated: every file above 52,428,800 bytes, whatever its extension, is
\* rejected with the oversized message; one of exactly that size is not
\* rejected for size.
C2_OversizedWhateverExtension ==
  [][\A f \in Files :
       Selects(f) =>
         /\ f.size > 52428800 => (error' = TooLargeMsg /\ file' = file)
         /\ f.size = 52428800 => error' # TooLargeMsg]_vars

\* C2 amended: every file above 52,428,800 bytes is rejected (file and results
\* stay); error becomes the oversized message when the name passes the type
\* check and the invalid-type message otherwise; a file of exactly 52,428,800
\* bytes is not rejected for size.
C2_OversizedRejected ==
  [][\A f \in Files :
       Selects(f) =>
         /\ f.size > 52428800 =>
              /\ file' = file /\ results' = results
              /\ error' = IF f \in TypeCheckedFiles THEN TooLargeMsg ELSE InvalidTypeMsg
         /\ f.size = 52428800 =>
              /\ error' # TooLargeMsg
              /\ f \in TypeCheckedFiles => file' = f]_vars

\* an oversized file was rejected while an earlier valid selection was kept
C2_Witness == error = TooLargeMsg /\ file # NoFile

-----------------------------------------------------------------------------
(* Analysis *)

Pending == { i \in 1..Len(reqs) : reqs[i].status = "pending" }

\* request i settles successfully / with a failure in this step
Succeeds(i) == reqs[i].status = "pending" /\ reqs'[i].status = "ok"
Fails(i) == reqs[i].status = "pending" /\ reqs'[i].status = "failed"

\* C3: when the analysis request of a valid selected file completes
\* successfully, results becomes the payload of that response and loading is
\* false in the resulting state, and progress is 100 no later than the step in
\* which results becomes non-empty.
C3_SuccessStoresResult ==
  [][/\ \A i \in 1..Len(reqs) :
          Succeeds(i) =>
            /\ reqs[i].file \in TypeCheckedFiles /\ reqs[i].file.size <= 52428800
            /\ results' = [filename |-> reqs[i].file.name, req |-> i]
            /\ loading' = FALSE
            /\ uploadProgress' = 100
     /\ (results = NoResult /\ results' # NoResult) => uploadProgress' = 100]_vars

\* a request succeeded and its result is shown, loading over, progress at 100
C3_Witness ==
  /\ results # NoResult
  /\ reqs[results.req].status = "ok"
  /\ ~loading
  /\ uploadProgress = 100

\* C4 as stated: when an analysis request fails, error is the backend detail
\* when one is present and the generic message otherwise, and results is unset.
C4_FailureDetailWhenPresent ==
  [][\A i \in 1..Len(reqs), d \in Details :
       analyzeFailure(i, d) =>
         /\ error' = IF d # Undefined THEN d ELSE GenericFailMsg
         /\ results' = NoResult]_vars

\* C4 amended: when an analysis request fails, in any interleaving with file
\* selection, reset and timer ticks, error is the backend detail when one is
\* present and non-empty, and the generic message otherwise (an empty detail
\* included), and results is unset in the resulting state.
C4_FailureSetsError ==
  [][\A i \in 1..Len(reqs), d \in Details :
       analyzeFailure(i, d) =>
         /\ error' = IF d # Undefined /\ d # "" THEN d ELSE GenericFailMsg
         /\ results' = NoResult]_vars

\* a request failed with a backend detail, which is the error shown
C4_Witness ==
  /\ \E i \in 1..Len(reqs) : reqs[i].status = "failed"
  /\ error = "Unsupported document"
  /\ results = NoResult

\* C7: provided every issued analysis request eventually settles, loading
\* eventually becomes false after every analysis start, and loading is false
\* in the state right after a request settles, on success and on failure.
C7_LoadingClears ==
  /\ [](loading => <>~loading)
  /\ [][\A i \in 1..Len(reqs) : (Succeeds(i) \/ Fails(i)) => ~loading']_vars

\* a request has failed and the loading flag is down again
C7_Witness ==
  /\ \E i \in 1..Len(reqs) : reqs[i].status = "failed"
  /\ Pending = {}
  /\ ~loading

-----------------------------------------------------------------------------
(* Reset *)

\* C5: from every reachable state where it can be invoked, resetApp yields
\* file = none, results = none, error = none, progress = 0, feature panel shown.
C5_ResetYieldsInitial ==
  [][resetApp =>
       /\ file' = NoFile
       /\ results' = NoResult
       /\ error' = NoError
       /\ uploadProgress' = 0
       /\ showFeatures' = TRUE]_vars

\* the state right after a reset made while a request was in flight
C5_Witness ==
  /\ loading /\ Pending # {}
  /\ file = NoFile /\ results = NoResult /\ error = NoError
  /\ uploadProgress = 0 /\ showFeatures

-----------------------------------------------------------------------------
(* Report download *)

\* base is filename with its final extension removed: filename is base, a ".",
\* and a non-empty extension free of "." and "/"; or filename has no such
\* extension and base is filename
IsBasename(base, filename) ==
  \/ \E k \in 1..(Len(filename) - 1) :
        /\ filename[k] = "."
        /\ \A j \in (k+1)..Len(filename) : filename[j] \notin {".", "/"}
        /\ base = SubSeq(filename, 1, k - 1)
  \/ /\ ~\E k \in 1..(Len(filename) - 1) :
          /\ filename[k] = "."
          /\ \A j \in (k+1)..Len(filename) : filename[j] \notin {".", "/"}
     /\ base = filename

\* C6: a download whose response is non-success or a success with a zero-byte
\* body shows an alert and triggers no browser save; a success with a
\* non-empty body triggers exactly one save, named
\* analysis_report_<basename>.pdf; the click itself saves nothing.
C6_DownloadOutcome ==
  [][/\ \A j \in 1..Len(dls), resp \in DlResponses :
          downloadSettle(j, resp) =>
            IF resp.status = 200 /\ resp.size > 0
            THEN /\ Len(saved') = Len(saved) + 1
                 /\ SubSeq(saved', 1, Len(saved)) = saved
                 /\ \E base \in {SubSeq(dls[j].filename, 1, n) : n \in 0..Len(dls[j].filename)} :
                      /\ IsBasename(base, dls[j].filename)
                      /\ saved'[Len(saved')] = <<"analysis_report_">> \o base \o <<".pdf">>
            ELSE /\ alerts'.failed = alerts.failed + 1
                 /\ saved' = saved
     /\ downloadPDF => (saved' = saved /\ alerts' = alerts)
     /\ Len(saved') <= Len(saved) + 1]_vars

\* a report of a two-dot upload was saved and another download failed
C6_Witness ==
  /\ \E k \in 1..Len(saved) : saved[k] = <<"analysis_report_", "b", ".", "c", ".pdf">>
  /\ alerts.failed > 0

-----------------------------------------------------------------------------
(* Requests in flight *)

PendingDownloads == { j \in 1..Len(dls) : dls[j].pending }

\* the ResultsDashboard instance on screen, 0 when none is mounted
Mounted == IF results # NoResult THEN inst ELSE 0

\* C8 as stated: at most one network request of the client is in flight.
C8_OneRequestInFlight == Cardinality(Pending) + Cardinality(PendingDownloads) <= 1

\* C8 amended: at most one analysis request is in flight, and while one is, no
\* results view is mounted, so no download can be started; download requests
\* left pending by a reset can be in flight beside it and beside each other.
C8_OneAnalysisInFlight ==
  /\ Cardinality(Pending) <= 1
  /\ loading <=> Pending # {}
  /\ Pending # {} => (results = NoResult /\ ~downloading)

\* an analysis request and a download request are in flight together
C8_Witness == Pending # {} /\ PendingDownloads # {}

\* C9 as stated: while a download request is unsettled no click can start a
\* second one, also after reset and re-entry with a new result.
C9_OneDownloadInFlight == Cardinality(PendingDownloads) <= 1

\* C9 amended: the busy flag is the flag of one results view: at most one
\* unsettled download request was started from any one mounted view, and no
\* click in that view starts another; a view mounted after a reset can start
\* a download while an earlier view's request is still unsettled.
C9_OneDownloadPerView ==
  /\ \A j, k \in PendingDownloads : dls[j].inst = dls[k].inst => j = k
  /\ (\E j \in PendingDownloads : dls[j].inst = Mounted) => downloading

\* two download requests of two results views are in flight together
C9_Witness ==
  \E j, k \in PendingDownloads : dls[j].inst # dls[k].inst /\ dls[k].inst = Mounted

-----------------------------------------------------------------------------
(* Rendering *)

\* C10: rendering a result in which sub-objects are missing or error-flagged
\* raises no error, skips exactly those sections and renders every other one.
C10_PartialResultRenders ==
  view.rendered =>
    /\ ~view.threw
    /\ view.sections = { f \in Fields : props[f] = "ok" }

-----------------------------------------------------------------------------
(* Progress timer *)

\* request i has settled, and its progressInterval is still scheduled
Dangling(i) == reqs[i].status # "pending" /\ reqs[i].timer

\* C11: the progress timer started by an analysis request is cancelled when
\* that request settles, on success and on failure alike: the timer of a
\* settled request is not scheduled, and no tick of it fires or changes
\* progress.
C11_TimerCancelledOnSettle ==
  /\ [](\A i \in 1..Len(reqs) : ~Dangling(i))
  /\ [][\A i \in 1..Len(reqs) :
         (Succeeds(i) \/ Fails(i)) => ~reqs'[i].timer]_vars
  /\ [][\A i \in 1..Len(reqs) :
         reqs[i].status # "pending" => ~progressTick(i)]_vars

\* C12: progress is in 0..100 in every reachable state; while an analysis
\* request is in flight it never exceeds 90, whatever timers tick (those left
\* over from earlier attempts included); it becomes 100 only in the step that
\* handles a successful response.
C12_ProgressBounds ==
  /\ [](uploadProgress \in 0..100)
  /\ [](Pending # {} => uploadProgress <= 90)
  /\ [][(uploadProgress' = 100 /\ uploadProgress # 100) =>
         \E i \in 1..Len(reqs) : Succeeds(i)]_vars

\* a request is in flight at progress 90 while the timer of an earlier, failed
\* attempt is still scheduled beside its own
C12_Witness ==
  /\ uploadProgress = 90
  /\ \E i \in Pending : reqs[i].timer
  /\ \E k \in 1..Len(reqs) : reqs[k].status = "failed" /\ reqs[k].timer

\* C16: in every reachable state in which results is non-empty, progress is
\* 100: once a successful response has set it to 100, no later timer tick (one
\* of a timer started by an earlier failed attempt included) lowers it while
\* the result is displayed.
C16_ResultAtFullProgress ==
  /\ [](results # NoResult => uploadProgress = 100)
  /\ [][\A i \in 1..Len(reqs) :
         (progressTick(i) /\ results # NoResult) =>
           uploadProgress' >= uploadProgress]_vars

-----------------------------------------------------------------------------
(* Responses and the state they land in *)

ValidationMsgs == {InvalidTypeMsg, TooLargeMsg}

\* C13 as stated: in the state in which a successful response has just stored
\* results, error is none, also when a file selection was rejected by
\* validation while the request was in flight.
C13_SuccessClearsError ==
  [][\A i \in 1..Len(reqs) : Succeeds(i) => error' = NoError]_vars

\* C13 amended: error is cleared by the step that issues the request, and the
\* step that handles the successful response leaves it as it is: in a state
\* with results stored, error is none or the validation message of a selection
\* rejected while the request was in flight, never an analysis failure message.
C13_SuccessKeepsError ==
  /\ [][analyzeDocument => error' = NoError]_vars
  /\ [][\A i \in 1..Len(reqs) : Succeeds(i) => error' = error]_vars
  /\ [](Pending # {} \/ results # NoResult =>
         error \in {NoError} \cup ValidationMsgs)

\* results are stored and error still holds the message of a selection that
\* was rejected while the request was in flight
C13_Witness ==
  /\ results # NoResult
  /\ reqs[results.req].status = "ok"
  /\ error = InvalidTypeMsg

\* C14: resetApp does not cancel an analysis request in flight: it leaves the
\* request and the loading flag as they are, and when the request succeeds
\* after the reset its response is applied, giving results set and progress
\* 100 while file is none.
C14_ResetKeepsRequest ==
  /\ [][resetApp => (reqs' = reqs /\ loading' = loading)]_vars
  /\ [][\A i \in 1..Len(reqs) :
         (Succeeds(i) /\ file = NoFile) =>
           /\ results' = [filename |-> reqs[i].file.name, req |-> i]
           /\ uploadProgress' = 100
           /\ file' = NoFile]_vars

\* the response of a request issued before a reset was applied after it
C14_Witness ==
  /\ file = NoFile
  /\ results # NoResult
  /\ uploadProgress = 100

\* C15: whenever results and file are both non-empty, results is the response
\* to a request issued for the selected file: selecting another valid file
\* while a request is in flight never leads to the earlier file's result
\* beside the newly selected file.
C15_ResultOfSelectedFile ==
  (results # NoResult /\ file # NoFile) => results.filename = file.name
====
